---------------------------- MODULE Spec2Model ----------------------------
(***************************************************************************)
(* Verification model of the two thread pools of the repository:           *)
(*   - the C++ priority pool with future-returning enqueue                 *)
(*     (src/cpp/thread/ThreadPool.hpp, lines 1-319), and                   *)
(*   - the C11 FIFO pool (src/cpp/thread/ThreadPool.c, lines 288-603,      *)
(*     declared in src/cpp/thread/ThreadPool.h).                           *)
(* Threads are modelled with one program counter each; a step is one       *)
(* critical section or one access to an atomic outside a critical section. *)
(***************************************************************************)
EXTENDS Integers, FiniteSets, Sequences, TLC

\* ------------------------------------------------------------------ bounds
NumWorkers == 2
NumClients == 2
MaxTasks == 2
\* The thread counts asked of a constructor run from 0 to MaxRequest, and the
\* values of hardware_concurrency() from 0 to MaxHardware.
MaxRequest == 66
MaxHardware == 3

\* ------------------------------------------------- constants of the program
DEFAULT_PRIORITY == 0
HIGH_PRIORITY == 8
\* ThreadPool.c, line 307: the largest thread count threadpool_create accepts.
MAX_THREAD_COUNT == 64

Workers == 1..NumWorkers
Clients == 1..NumClients
Tasks == 1..MaxTasks
Priorities == {DEFAULT_PRIORITY, HIGH_PRIORITY}

\* Thread identities, as owners of a mutex (0: the mutex is free).
WorkerId(w) == w
ClientId(c) == NumWorkers + c

VARIABLES
    \* ---- C++ pool (ThreadPool.hpp)
    threadCount,    \* size_t threadCount_: fixed by the constructor
    stopFlag,       \* std::atomic<bool> stopFlag_
    pauseFlag,      \* std::atomic<bool> pauseFlag_
    runningTasks,   \* std::atomic<int> runningTasks_
    taskQueue,      \* std::priority_queue taskQueue_: the set of queued tasks
    queueMutex,     \* owner of queueMutex_ (0: free)
    wpc,            \* wpc[w]: where worker w stands in workerLoop
    work,           \* work[w]: the task worker w popped (0: none)
    joinable,       \* joinable[w]: threads_[w].joinable()
    joinCount,      \* joinCount[w]: completed join() calls on threads_[w]
    cpc,            \* cpc[c]: where caller c stands in the call it makes
    joinIdx,        \* joinIdx[c]: index of shutdown()'s loop over threads_
    nextTask,       \* number of tasks accepted so far
    priority,       \* priority[t]: Task::first, while the task is queued or run
    future,         \* future[t]: shared state of the std::future of task t
    fate,           \* fate[t]: what has happened to task t
    shutdownDone,   \* some shutdown() call has returned
    sdSecond,       \* sdSecond[c]: c's shutdown() began after one had returned
    \* ---- C pool (ThreadPool.c, ThreadPool.h)
    stop_flag,          \* pool->stop_flag
    pause_flag,         \* pool->pause_flag
    running_tasks,      \* pool->running_tasks
    queue_size,         \* pool->queue_size
    task_queue_head,    \* pool->task_queue_head (0: NULL)
    task_queue_tail,    \* pool->task_queue_tail (0: NULL)
    task_next,          \* task_next[t]: task->next (0: NULL)
    queue_mutex,        \* owner of pool->queue_mutex (0: free)
    pool_freed,         \* threadpool_cleanup_resources has run
    worker_pc,          \* worker_pc[w]: where worker w stands in worker_loop
    worker_task,        \* worker_task[w]: the local task of worker_loop (0: NULL)
    thrd_joined,        \* thrd_joined[w]: thrd_join calls made on threads[w]
    caller_pc,          \* caller_pc[c]: where caller c stands in its call
    join_i,             \* join_i[c]: the loop index of threadpool_shutdown
    getter_pc,          \* getter_pc[g]: where getter g stands in taskresult_get
    getter_result,      \* getter_result[g]: the handle g called taskresult_get on
    getter_value,       \* getter_value[g]: the local value of taskresult_get
    enqueued,           \* number of tasks threadpool_enqueue has accepted
    result_ready,       \* result_ready[t]: task t's TaskResult_t.ready
    result_value,       \* result_value[t]: task t's TaskResult_t.result_value
    result_freed,       \* result_freed[t]: taskresult_destroy has freed the result
    task_fate,          \* task_fate[t]: what has happened to task t
    fault,              \* the undefined behaviour executed so far
    \* ---- construction of the two pools
    requested,          \* the threadCount argument
    hw,                 \* std::thread::hardware_concurrency()
    thread_count,       \* ThreadPool_t.thread_count (0: not yet created)
    constructed,        \* ThreadPool::ThreadPool has run
    created             \* threadpool_create has run

cppVars == <<threadCount, stopFlag, pauseFlag, runningTasks, taskQueue,
             queueMutex, wpc, work, joinable, joinCount, cpc, joinIdx, nextTask,
             priority, future, fate, shutdownDone, sdSecond>>

cVars == <<stop_flag, pause_flag, running_tasks, queue_size, task_queue_head,
           task_queue_tail, task_next, queue_mutex, pool_freed, worker_pc,
           worker_task, thrd_joined, caller_pc, join_i, getter_pc,
           getter_result, getter_value, enqueued, result_ready, result_value,
           result_freed, task_fate, fault>>

createVars == <<requested, hw, thread_count, constructed, created>>

vars == <<cppVars, cVars, createVars>>

\* ===================================================================== C++
\* TaskCompare: orders tasks by priority only.
TaskCompareFlipped(lhs, rhs) == priority[lhs] > priority[rhs]
TaskCompare(lhs, rhs) == priority[lhs] < priority[rhs]

\* taskQueue_.top(): an element no other element is greater than.
Top(q) == {t \in q : \A u \in q : ~TaskCompare(t, u)}

\* The predicate of queueCV_.wait in workerLoop.
WorkerPred == stopFlag \/ (~pauseFlag /\ taskQueue # {})

WaitPred == taskQueue = {} /\ runningTasks = 0

\* queueCV_.notify_all(): every worker parked on queueCV_ goes on to relock.
NotifyAllQueueCV(p) == [w \in Workers |-> IF p[w] = "waiting" THEN "lock" ELSE p[w]]

\* waitCV_.notify_all(): every thread parked on waitCV_ goes on to relock.
NotifyAllWaitCVClients(p) ==
    [c \in Clients |-> IF p[c] = "wait_waiting" THEN "wait_lock" ELSE p[c]]
NotifyAllWaitCVWorkers(p) ==
    [w \in Workers |-> IF p[w] = "twait_waiting" THEN "twait_lock" ELSE p[w]]

\* Lines 50-52: the worker threads the constructor started.
Threads == 1..threadCount

\* Lines 40-42: the thread count the constructor keeps.
ConstructorThreadCount(threadCountArg, hardware) ==
    LET kept == IF threadCountArg = 0 \/ threadCountArg > hardware
                  THEN hardware ELSE threadCountArg
    IN IF kept >= 1 THEN kept ELSE 1

\* Lines 45-47 and the members that are default-constructed.
CppFieldsInit ==
    /\ stopFlag = FALSE
    /\ pauseFlag = FALSE
    /\ runningTasks = 0
    /\ taskQueue = {}
    /\ queueMutex = 0
    /\ work = [w \in Workers |-> 0]
    /\ joinCount = [w \in Workers |-> 0]
    /\ cpc = [c \in Clients |-> "idle"]
    /\ joinIdx = [c \in Clients |-> 0]
    /\ nextTask = 0
    /\ priority = [t \in Tasks |-> DEFAULT_PRIORITY]
    /\ future = [t \in Tasks |-> "none"]
    /\ fate = [t \in Tasks |-> "unsubmitted"]
    /\ shutdownDone = FALSE
    /\ sdSecond = [c \in Clients |-> FALSE]

\* Lines 39-53.  threadCount_ is the argument clamped to 1..hardware_concurrency.
CppInit ==
    /\ threadCount \in 1..NumWorkers
    /\ wpc = [w \in Workers |-> IF w <= threadCount THEN "lock" ELSE "none"]
    /\ joinable = [w \in Workers |-> w <= threadCount]
    /\ CppFieldsInit

\* The constructor, lines 39-53, applied to the argument: it fixes threadCount_
\* and starts that many workers.
Constructor ==
    /\ ~constructed
    /\ threadCount' = ConstructorThreadCount(requested, hw)
    /\ wpc' = [w \in Workers |-> IF w <= threadCount' THEN "lock" ELSE "none"]
    /\ joinable' = [w \in Workers |-> w <= threadCount']
    /\ constructed' = TRUE
    /\ UNCHANGED <<stopFlag, pauseFlag, runningTasks, taskQueue, queueMutex,
                   work, joinCount, cpc, joinIdx, nextTask, priority, future,
                   fate, shutdownDone, sdSecond>>
    /\ UNCHANGED <<cVars, requested, hw, thread_count, created>>

----------------------------------------------------------------------------
\* workerLoop

\* Line 228 without the test of the queue.
ExitConditionStopOnly == stopFlag
\* Line 228: the exit condition.
ExitCondition == stopFlag /\ taskQueue = {}

\* Lines 219-228: lock, evaluate the wait predicate, and the exit condition.
WorkerLock(w) ==
    /\ wpc[w] = "lock"
    /\ queueMutex = 0
    /\ IF WorkerPred
         THEN IF ExitCondition
                THEN /\ wpc' = [wpc EXCEPT ![w] = "exited"]
                     /\ UNCHANGED queueMutex
                ELSE /\ wpc' = [wpc EXCEPT ![w] = "pausechk"]
                     /\ queueMutex' = WorkerId(w)
         ELSE /\ wpc' = [wpc EXCEPT ![w] = "block"]
              /\ queueMutex' = WorkerId(w)
    /\ UNCHANGED <<stopFlag, pauseFlag, runningTasks, taskQueue, work, joinable,
                   joinCount, cpc, joinIdx, nextTask, priority, future, fate,
                   shutdownDone, sdSecond>>
    /\ UNCHANGED <<threadCount, cVars, createVars>>

\* Inside queueCV_.wait: release the mutex and park.
WorkerBlock(w) ==
    /\ wpc[w] = "block"
    /\ wpc' = [wpc EXCEPT ![w] = "waiting"]
    /\ queueMutex' = 0
    /\ UNCHANGED <<stopFlag, pauseFlag, runningTasks, taskQueue, work, joinable,
                   joinCount, cpc, joinIdx, nextTask, priority, future, fate,
                   shutdownDone, sdSecond>>
    /\ UNCHANGED <<threadCount, cVars, createVars>>

\* condition_variable::wait may return without a notification.
WorkerSpuriousWakeup(w) ==
    /\ wpc[w] = "waiting"
    /\ wpc' = [wpc EXCEPT ![w] = "lock"]
    /\ UNCHANGED <<stopFlag, pauseFlag, runningTasks, taskQueue, queueMutex, work,
                   joinable, joinCount, cpc, joinIdx, nextTask, priority, future,
                   fate, shutdownDone, sdSecond>>
    /\ UNCHANGED <<threadCount, cVars, createVars>>

\* Line 231: the pause condition.
WorkerPauseCheck(w) ==
    /\ wpc[w] = "pausechk"
    /\ IF pauseFlag
         THEN /\ wpc' = [wpc EXCEPT ![w] = "lock"]
              /\ queueMutex' = 0
         ELSE /\ wpc' = [wpc EXCEPT ![w] = "pop"]
              /\ UNCHANGED queueMutex
    /\ UNCHANGED <<stopFlag, pauseFlag, runningTasks, taskQueue, work, joinable,
                   joinCount, cpc, joinIdx, nextTask, priority, future, fate,
                   shutdownDone, sdSecond>>
    /\ UNCHANGED <<threadCount, cVars, createVars>>

\* Lines 233-239 without taskQueue_.pop(): the task taken stays in the queue.
WorkerPopNoRemove(w) ==
    /\ wpc[w] = "pop"
    /\ IF taskQueue # {}
         THEN \E t \in Top(taskQueue) :
                /\ work' = [work EXCEPT ![w] = t]
                /\ fate' = [fate EXCEPT ![t] = "dequeued"]
                /\ wpc' = [wpc EXCEPT ![w] = "inc"]
         ELSE /\ wpc' = [wpc EXCEPT ![w] = "lock"]
              /\ UNCHANGED <<work, fate>>
    /\ queueMutex' = 0
    /\ UNCHANGED <<stopFlag, pauseFlag, runningTasks, taskQueue, joinable,
                   joinCount, cpc, joinIdx, nextTask, priority, future,
                   shutdownDone, sdSecond>>
    /\ UNCHANGED <<threadCount, cVars, createVars>>

\* Lines 233-239 if the lock were kept over the execution of the task.
WorkerPopKeepLock(w) ==
    /\ wpc[w] = "pop"
    /\ IF taskQueue # {}
         THEN /\ \E t \in Top(taskQueue) :
                   /\ work' = [work EXCEPT ![w] = t]
                   /\ taskQueue' = taskQueue \ {t}
                   /\ fate' = [fate EXCEPT ![t] = "dequeued"]
                   /\ wpc' = [wpc EXCEPT ![w] = "inc"]
              /\ UNCHANGED queueMutex
         ELSE /\ wpc' = [wpc EXCEPT ![w] = "lock"]
              /\ queueMutex' = 0
              /\ UNCHANGED <<work, taskQueue, fate>>
    /\ UNCHANGED <<stopFlag, pauseFlag, runningTasks, joinable, joinCount, cpc,
                   joinIdx, nextTask, priority, future, shutdownDone, sdSecond>>
    /\ UNCHANGED <<threadCount, cVars, createVars>>

\* Lines 233-239: take the top of the queue and unlock.
WorkerPop(w) ==
    /\ wpc[w] = "pop"
    /\ IF taskQueue # {}
         THEN \E t \in Top(taskQueue) :
                /\ work' = [work EXCEPT ![w] = t]
                /\ taskQueue' = taskQueue \ {t}
                /\ fate' = [fate EXCEPT ![t] = "dequeued"]
                /\ wpc' = [wpc EXCEPT ![w] = "inc"]
         ELSE /\ wpc' = [wpc EXCEPT ![w] = "lock"]
              /\ UNCHANGED <<work, taskQueue, fate>>
    /\ queueMutex' = 0
    /\ UNCHANGED <<stopFlag, pauseFlag, runningTasks, joinable, joinCount, cpc,
                   joinIdx, nextTask, priority, future, shutdownDone, sdSecond>>
    /\ UNCHANGED <<threadCount, cVars, createVars>>

\* Line 241 if one task were counted twice.
WorkerIncByTwo(w) ==
    /\ wpc[w] = "inc"
    /\ runningTasks' = runningTasks + 2
    /\ wpc' = [wpc EXCEPT ![w] = "exec"]
    /\ UNCHANGED <<stopFlag, pauseFlag, taskQueue, queueMutex, work, joinable,
                   joinCount, cpc, joinIdx, nextTask, priority, future, fate,
                   shutdownDone, sdSecond>>
    /\ UNCHANGED <<threadCount, cVars, createVars>>

\* Line 241: runningTasks_.fetch_add(1), outside the lock.
WorkerInc(w) ==
    /\ wpc[w] = "inc"
    /\ runningTasks' = runningTasks + 1
    /\ wpc' = [wpc EXCEPT ![w] = "exec"]
    /\ UNCHANGED <<stopFlag, pauseFlag, taskQueue, queueMutex, work, joinable,
                   joinCount, cpc, joinIdx, nextTask, priority, future, fate,
                   shutdownDone, sdSecond>>
    /\ UNCHANGED <<threadCount, cVars, createVars>>

\* Lines 244-250, 92-94: the payload returns; a packaged_task stores the value.
PayloadReturns(w) ==
    /\ wpc[w] = "exec"
    /\ future' = [future EXCEPT ![work[w]] = IF @ = "pending" THEN "value" ELSE @]
    /\ fate' = [fate EXCEPT ![work[w]] = "executed"]
    /\ wpc' = [wpc EXCEPT ![w] = "dec"]
    /\ UNCHANGED <<stopFlag, pauseFlag, runningTasks, taskQueue, queueMutex, work,
                   joinable, joinCount, cpc, joinIdx, nextTask, priority,
                   shutdownDone, sdSecond>>
    /\ UNCHANGED <<threadCount, cVars, createVars>>

\* The payload throws and nothing catches it: the worker thread is gone.
PayloadThrowsUncaught(w) ==
    /\ wpc[w] = "exec"
    /\ fate' = [fate EXCEPT ![work[w]] = "threw"]
    /\ wpc' = [wpc EXCEPT ![w] = "exited"]
    /\ UNCHANGED <<stopFlag, pauseFlag, runningTasks, taskQueue, queueMutex, work,
                   joinable, joinCount, cpc, joinIdx, nextTask, priority, future,
                   shutdownDone, sdSecond>>
    /\ UNCHANGED <<threadCount, cVars, createVars>>

\* Lines 244-250, 92-94: the payload throws.  A packaged_task stores the
\* exception in the shared state; the exception of a void task is caught and
\* logged by the worker.
PayloadThrows(w) ==
    /\ wpc[w] = "exec"
    /\ future' = [future EXCEPT ![work[w]] = IF @ = "pending" THEN "exception" ELSE @]
    /\ fate' = [fate EXCEPT ![work[w]] = "threw"]
    /\ wpc' = [wpc EXCEPT ![w] = "dec"]
    /\ UNCHANGED <<stopFlag, pauseFlag, runningTasks, taskQueue, queueMutex, work,
                   joinable, joinCount, cpc, joinIdx, nextTask, priority,
                   shutdownDone, sdSecond>>
    /\ UNCHANGED <<threadCount, cVars, createVars>>

\* Lines 257-260 with the notification left out.
IdleAfterDecNever == FALSE
\* Lines 257-258: fetch_sub returned 1 and the queue is empty.
IdleAfterDec == runningTasks = 1 /\ taskQueue = {}

\* Lines 252-262: decrement, and notify wait() if this was the last task.  The
\* popped Task is gone when the iteration ends; its priority is forgotten.
WorkerDec(w) ==
    /\ wpc[w] = "dec"
    /\ queueMutex = 0
    /\ runningTasks' = runningTasks - 1
    /\ LET idle == IdleAfterDec
           wp == IF idle THEN NotifyAllWaitCVWorkers(wpc) ELSE wpc
       IN /\ wpc' = [wp EXCEPT ![w] = "lock"]
          /\ cpc' = IF idle THEN NotifyAllWaitCVClients(cpc) ELSE cpc
    /\ work' = [work EXCEPT ![w] = 0]
    /\ priority' = [priority EXCEPT ![work[w]] = DEFAULT_PRIORITY]
    /\ UNCHANGED <<stopFlag, pauseFlag, taskQueue, queueMutex, joinable, joinCount,
                   joinIdx, nextTask, future, fate, shutdownDone, sdSecond>>
    /\ UNCHANGED <<threadCount, cVars, createVars>>

----------------------------------------------------------------------------
\* A payload that calls pool.wait() from the worker thread that runs it.

\* Lines 112-117 on the worker's thread: lock and evaluate the predicate.
PayloadCallsWait(w) ==
    /\ wpc[w] \in {"exec", "twait_lock"}
    /\ queueMutex = 0
    /\ IF WaitPred
         THEN /\ wpc' = [wpc EXCEPT ![w] = "exec"]
              /\ UNCHANGED queueMutex
         ELSE /\ wpc' = [wpc EXCEPT ![w] = "twait_block"]
              /\ queueMutex' = WorkerId(w)
    /\ UNCHANGED <<stopFlag, pauseFlag, runningTasks, taskQueue, work, joinable,
                   joinCount, cpc, joinIdx, nextTask, priority, future, fate,
                   shutdownDone, sdSecond>>
    /\ UNCHANGED <<threadCount, cVars, createVars>>

\* Inside waitCV_.wait on the worker's thread: release the mutex and park.
PayloadWaitBlock(w) ==
    /\ wpc[w] = "twait_block"
    /\ wpc' = [wpc EXCEPT ![w] = "twait_waiting"]
    /\ queueMutex' = 0
    /\ UNCHANGED <<stopFlag, pauseFlag, runningTasks, taskQueue, work, joinable,
                   joinCount, cpc, joinIdx, nextTask, priority, future, fate,
                   shutdownDone, sdSecond>>
    /\ UNCHANGED <<threadCount, cVars, createVars>>

----------------------------------------------------------------------------
\* Callers of the public methods.  Idle callers are interchangeable, so the
\* next call is made by the lowest idle one.
CanStart(c) == cpc[c] = "idle" /\ \A d \in Clients : d < c => cpc[d] # "idle"

\* queueTask, line 201, with the shutdown test left out.
StopCheckNever == FALSE
\* queueTask, line 201: the shutdown test.
StopCheck == stopFlag

\* queueTask, lines 197-206: under the lock, throw if stopped, else emplace.
QueueTaskLocked(c, p, withFuture) ==
    IF StopCheck
      THEN /\ cpc' = [cpc EXCEPT ![c] = "enq_throw"]
           /\ queueMutex' = ClientId(c)
           /\ UNCHANGED <<taskQueue, priority, future, fate, nextTask>>
      ELSE /\ nextTask < MaxTasks
           /\ LET t == nextTask + 1
              IN /\ taskQueue' = taskQueue \cup {t}
                 /\ priority' = [priority EXCEPT ![t] = p]
                 /\ future' = [future EXCEPT ![t] =
                                  IF withFuture THEN "pending" ELSE "none"]
                 /\ fate' = [fate EXCEPT ![t] = "queued"]
                 /\ nextTask' = t
           /\ cpc' = [cpc EXCEPT ![c] = "enq_notify"]
           /\ UNCHANGED queueMutex

\* enqueue(priority, f, args...), lines 62-68 (void) and 81-100 (future).
Enqueue(c) ==
    /\ CanStart(c)
    /\ queueMutex = 0
    /\ \E p \in Priorities, withFuture \in BOOLEAN : QueueTaskLocked(c, p, withFuture)
    /\ UNCHANGED <<stopFlag, pauseFlag, runningTasks, wpc, work, joinable,
                   joinCount, joinIdx, shutdownDone, sdSecond>>
    /\ UNCHANGED <<threadCount, cVars, createVars>>

\* Line 202: the exception leaves queueTask; unique_lock unlocks.
EnqueueThrow(c) ==
    /\ cpc[c] = "enq_throw"
    /\ cpc' = [cpc EXCEPT ![c] = "idle"]
    /\ queueMutex' = 0
    /\ UNCHANGED <<stopFlag, pauseFlag, runningTasks, taskQueue, wpc, work,
                   joinable, joinCount, joinIdx, nextTask, priority, future, fate,
                   shutdownDone, sdSecond>>
    /\ UNCHANGED <<threadCount, cVars, createVars>>

\* Lines 208-211 with the notification left out.
EnqueueNoNotify(c) ==
    /\ cpc[c] = "enq_notify"
    /\ cpc' = [cpc EXCEPT ![c] = "idle"]
    /\ UNCHANGED <<stopFlag, pauseFlag, runningTasks, taskQueue, queueMutex, wpc,
                   work, joinable, joinCount, joinIdx, nextTask, priority, future,
                   fate, shutdownDone, sdSecond>>
    /\ UNCHANGED <<threadCount, cVars, createVars>>

\* Lines 208-211: notify one waiting worker unless paused.
EnqueueNotify(c) ==
    /\ cpc[c] = "enq_notify"
    /\ cpc' = [cpc EXCEPT ![c] = "idle"]
    /\ IF ~pauseFlag /\ \E w \in Threads : wpc[w] = "waiting"
         THEN \E w \in Threads : /\ wpc[w] = "waiting"
                                 /\ wpc' = [wpc EXCEPT ![w] = "lock"]
         ELSE UNCHANGED wpc
    /\ UNCHANGED <<stopFlag, pauseFlag, runningTasks, taskQueue, queueMutex, work,
                   joinable, joinCount, joinIdx, nextTask, priority, future, fate,
                   shutdownDone, sdSecond>>
    /\ UNCHANGED <<threadCount, cVars, createVars>>

\* wait(), lines 112-117: lock and evaluate the predicate (first, and again
\* after each wake-up).
WaitLock(c) ==
    /\ CanStart(c) \/ cpc[c] = "wait_lock"
    /\ queueMutex = 0
    /\ queueMutex' = ClientId(c)
    /\ cpc' = [cpc EXCEPT ![c] = IF WaitPred THEN "wait_ret" ELSE "wait_block"]
    /\ UNCHANGED <<stopFlag, pauseFlag, runningTasks, taskQueue, wpc, work,
                   joinable, joinCount, joinIdx, nextTask, priority, future, fate,
                   shutdownDone, sdSecond>>
    /\ UNCHANGED <<threadCount, cVars, createVars>>

\* Inside waitCV_.wait: release the mutex and park.
WaitBlock(c) ==
    /\ cpc[c] = "wait_block"
    /\ cpc' = [cpc EXCEPT ![c] = "wait_waiting"]
    /\ queueMutex' = 0
    /\ UNCHANGED <<stopFlag, pauseFlag, runningTasks, taskQueue, wpc, work,
                   joinable, joinCount, joinIdx, nextTask, priority, future, fate,
                   shutdownDone, sdSecond>>
    /\ UNCHANGED <<threadCount, cVars, createVars>>

\* condition_variable::wait may return without a notification.
WaitSpuriousWakeup(c) ==
    /\ cpc[c] = "wait_waiting"
    /\ cpc' = [cpc EXCEPT ![c] = "wait_lock"]
    /\ UNCHANGED <<stopFlag, pauseFlag, runningTasks, taskQueue, queueMutex, wpc,
                   work, joinable, joinCount, joinIdx, nextTask, priority, future,
                   fate, shutdownDone, sdSecond>>
    /\ UNCHANGED <<threadCount, cVars, createVars>>

\* Line 118: wait() returns; unique_lock unlocks.
WaitReturn(c) ==
    /\ cpc[c] = "wait_ret"
    /\ cpc' = [cpc EXCEPT ![c] = "idle"]
    /\ queueMutex' = 0
    /\ UNCHANGED <<stopFlag, pauseFlag, runningTasks, taskQueue, wpc, work,
                   joinable, joinCount, joinIdx, nextTask, priority, future, fate,
                   shutdownDone, sdSecond>>
    /\ UNCHANGED <<threadCount, cVars, createVars>>

\* pause(), lines 121-123, if it also emptied the queue.
PauseDropsQueue(c) ==
    /\ CanStart(c)
    /\ pauseFlag' = TRUE
    /\ taskQueue' = {}
    /\ UNCHANGED <<stopFlag, runningTasks, queueMutex, wpc, work, joinable,
                   joinCount, cpc, joinIdx, nextTask, priority, future, fate,
                   shutdownDone, sdSecond>>
    /\ UNCHANGED <<threadCount, cVars, createVars>>

\* pause(), lines 121-123.
Pause(c) ==
    /\ CanStart(c)
    /\ pauseFlag' = TRUE
    /\ UNCHANGED <<stopFlag, runningTasks, taskQueue, queueMutex, wpc, work,
                   joinable, joinCount, cpc, joinIdx, nextTask, priority, future,
                   fate, shutdownDone, sdSecond>>
    /\ UNCHANGED <<threadCount, cVars, createVars>>

\* resume(), line 127, if it also cleared stopFlag_.
ResumeStoreRestarts(c) ==
    /\ CanStart(c)
    /\ pauseFlag' = FALSE
    /\ stopFlag' = FALSE
    /\ cpc' = [cpc EXCEPT ![c] = "resume_notify"]
    /\ UNCHANGED <<runningTasks, taskQueue, queueMutex, wpc, work, joinable,
                   joinCount, joinIdx, nextTask, priority, future, fate,
                   shutdownDone, sdSecond>>
    /\ UNCHANGED <<threadCount, cVars, createVars>>

\* resume(), line 127.
ResumeStore(c) ==
    /\ CanStart(c)
    /\ pauseFlag' = FALSE
    /\ cpc' = [cpc EXCEPT ![c] = "resume_notify"]
    /\ UNCHANGED <<stopFlag, runningTasks, taskQueue, queueMutex, wpc, work,
                   joinable, joinCount, joinIdx, nextTask, priority, future, fate,
                   shutdownDone, sdSecond>>
    /\ UNCHANGED <<threadCount, cVars, createVars>>

\* resume(), line 128.
ResumeNotify(c) ==
    /\ cpc[c] = "resume_notify"
    /\ cpc' = [cpc EXCEPT ![c] = "idle"]
    /\ wpc' = NotifyAllQueueCV(wpc)
    /\ UNCHANGED <<stopFlag, pauseFlag, runningTasks, taskQueue, queueMutex, work,
                   joinable, joinCount, joinIdx, nextTask, priority, future, fate,
                   shutdownDone, sdSecond>>
    /\ UNCHANGED <<threadCount, cVars, createVars>>

\* Line 138 with the notification left out.
ClearQueueNotifiesNever == FALSE
\* Line 138: clearQueue() notifies waitCV_ when no task is running.
ClearQueueNotifies == runningTasks = 0

\* clearQueue(), lines 132-141.  The swapped-out queue is destroyed before the
\* lock is released; destroying a packaged_task that was never invoked makes
\* its shared state ready with broken_promise.
ClearQueue(c) ==
    /\ CanStart(c)
    /\ queueMutex = 0
    /\ taskQueue' = {}
    /\ future' = [t \in Tasks |-> IF t \in taskQueue /\ future[t] = "pending"
                                    THEN "broken_promise" ELSE future[t]]
    /\ fate' = [t \in Tasks |-> IF t \in taskQueue THEN "discarded" ELSE fate[t]]
    /\ IF ClearQueueNotifies
         THEN /\ cpc' = NotifyAllWaitCVClients(cpc)
              /\ wpc' = NotifyAllWaitCVWorkers(wpc)
         ELSE UNCHANGED <<cpc, wpc>>
    /\ priority' = [t \in Tasks |-> IF t \in taskQueue THEN DEFAULT_PRIORITY
                                                      ELSE priority[t]]
    /\ UNCHANGED <<stopFlag, pauseFlag, runningTasks, queueMutex, work, joinable,
                   joinCount, joinIdx, nextTask, shutdownDone, sdSecond>>
    /\ UNCHANGED <<threadCount, cVars, createVars>>

\* shutdown(), lines 146-150.
ShutdownLock(c) ==
    /\ CanStart(c)
    /\ queueMutex = 0
    /\ stopFlag' = TRUE
    /\ pauseFlag' = FALSE
    /\ cpc' = [cpc EXCEPT ![c] = "sd_notify_queue"]
    /\ sdSecond' = [sdSecond EXCEPT ![c] = shutdownDone]
    /\ UNCHANGED <<runningTasks, taskQueue, queueMutex, wpc, work, joinable,
                   joinCount, joinIdx, nextTask, priority, future, fate,
                   shutdownDone>>
    /\ UNCHANGED <<threadCount, cVars, createVars>>

\* shutdown(), line 152.
ShutdownNotifyQueue(c) ==
    /\ cpc[c] = "sd_notify_queue"
    /\ cpc' = [cpc EXCEPT ![c] = "sd_notify_wait"]
    /\ wpc' = NotifyAllQueueCV(wpc)
    /\ UNCHANGED <<stopFlag, pauseFlag, runningTasks, taskQueue, queueMutex, work,
                   joinable, joinCount, joinIdx, nextTask, priority, future, fate,
                   shutdownDone, sdSecond>>
    /\ UNCHANGED <<threadCount, cVars, createVars>>

\* shutdown(), line 153.
ShutdownNotifyWait(c) ==
    /\ cpc[c] = "sd_notify_wait"
    /\ cpc' = [NotifyAllWaitCVClients(cpc) EXCEPT ![c] = "sd_join"]
    /\ wpc' = NotifyAllWaitCVWorkers(wpc)
    /\ joinIdx' = [joinIdx EXCEPT ![c] = 1]
    /\ UNCHANGED <<stopFlag, pauseFlag, runningTasks, taskQueue, queueMutex, work,
                   joinable, joinCount, nextTask, priority, future, fate,
                   shutdownDone, sdSecond>>
    /\ UNCHANGED <<threadCount, cVars, createVars>>

\* shutdown(), line 156, with the joinable() test left out.
JoinableTestAlways(w) == TRUE
\* shutdown(), line 156: the joinable() test.
JoinableTest(w) == joinable[w]

\* shutdown(), lines 155-158: the loop head, the joinable() test, the return.
ShutdownJoinCheck(c) ==
    /\ cpc[c] = "sd_join"
    /\ IF joinIdx[c] > threadCount
         THEN /\ cpc' = [cpc EXCEPT ![c] = "idle"]
              /\ joinIdx' = [joinIdx EXCEPT ![c] = 0]
              /\ shutdownDone' = TRUE
              /\ sdSecond' = [sdSecond EXCEPT ![c] = FALSE]
         ELSE /\ IF JoinableTest(joinIdx[c])
                   THEN /\ cpc' = [cpc EXCEPT ![c] = "sd_joining"]
                        /\ UNCHANGED joinIdx
                   ELSE /\ joinIdx' = [joinIdx EXCEPT ![c] = @ + 1]
                        /\ UNCHANGED cpc
              /\ UNCHANGED <<shutdownDone, sdSecond>>
    /\ UNCHANGED <<stopFlag, pauseFlag, runningTasks, taskQueue, queueMutex, wpc,
                   work, joinable, joinCount, nextTask, priority, future, fate>>
    /\ UNCHANGED <<threadCount, cVars, createVars>>

\* shutdown(), line 156: t.join() returns once the worker has exited.
ShutdownJoin(c) ==
    /\ cpc[c] = "sd_joining"
    /\ wpc[joinIdx[c]] = "exited"
    /\ joinable' = [joinable EXCEPT ![joinIdx[c]] = FALSE]
    /\ joinCount' = [joinCount EXCEPT ![joinIdx[c]] = @ + 1]
    /\ joinIdx' = [joinIdx EXCEPT ![c] = @ + 1]
    /\ cpc' = [cpc EXCEPT ![c] = "sd_join"]
    /\ UNCHANGED <<stopFlag, pauseFlag, runningTasks, taskQueue, queueMutex, wpc,
                   work, nextTask, priority, future, fate, shutdownDone, sdSecond>>
    /\ UNCHANGED <<threadCount, cVars, createVars>>

WorkerStep(w) ==
    \/ WorkerLock(w)
    \/ WorkerBlock(w)
    \/ WorkerSpuriousWakeup(w)
    \/ WorkerPauseCheck(w)
    \/ WorkerPop(w)
    \/ WorkerInc(w)
    \/ PayloadReturns(w)
    \/ PayloadThrows(w)
    \/ PayloadCallsWait(w)
    \/ PayloadWaitBlock(w)
    \/ WorkerDec(w)

ClientStep(c) ==
    \/ Enqueue(c)
    \/ EnqueueThrow(c)
    \/ EnqueueNotify(c)
    \/ WaitLock(c)
    \/ WaitBlock(c)
    \/ WaitSpuriousWakeup(c)
    \/ WaitReturn(c)
    \/ Pause(c)
    \/ ResumeStore(c)
    \/ ResumeNotify(c)
    \/ ClearQueue(c)
    \/ ShutdownLock(c)
    \/ ShutdownNotifyQueue(c)
    \/ ShutdownNotifyWait(c)
    \/ ShutdownJoinCheck(c)
    \/ ShutdownJoin(c)


CppNext == (\E w \in Workers : WorkerStep(w)) \/ (\E c \in Clients : ClientStep(c))

\* ======================================================================= C
NumGetters == 2
Getters == 1..NumGetters

\* The value threadpool_clear_queue stores in a discarded task's result.
CLEARED_RESULT_VALUE == 0
\* The values a task function returns.
TaskValues == {0, 1}

\* Lines 307-311: the thread count threadpool_create keeps.
CreateThreadCount(threadCountArg) ==
    IF threadCountArg = 0 \/ threadCountArg > MAX_THREAD_COUNT
      THEN 1 ELSE threadCountArg

\* Lines 320-325 and the objects no call has touched yet.
CFieldsInit ==
    /\ stop_flag = FALSE
    /\ pause_flag = FALSE
    /\ running_tasks = 0
    /\ queue_size = 0
    /\ task_queue_head = 0
    /\ task_queue_tail = 0
    /\ task_next = [t \in Tasks |-> 0]
    /\ queue_mutex = 0
    /\ pool_freed = FALSE
    /\ worker_task = [w \in Workers |-> 0]
    /\ thrd_joined = [w \in Workers |-> 0]
    /\ caller_pc = [c \in Clients |-> "idle"]
    /\ join_i = [c \in Clients |-> 0]
    /\ getter_pc = [g \in Getters |-> "idle"]
    /\ getter_result = [g \in Getters |-> 0]
    /\ getter_value = [g \in Getters |-> 0]
    /\ enqueued = 0
    /\ result_ready = [t \in Tasks |-> FALSE]
    /\ result_value = [t \in Tasks |-> 0]
    /\ result_freed = [t \in Tasks |-> FALSE]
    /\ task_fate = [t \in Tasks |-> "unsubmitted"]
    /\ fault = {}

\* threadpool_create(NumWorkers), lines 300-356.
CInit ==
    /\ worker_pc = [w \in Workers |-> "lock"]
    /\ CFieldsInit

\* threadpool_create, lines 300-356, applied to the argument: it fixes
\* thread_count and starts that many workers.
ThreadpoolCreate ==
    /\ ~created
    /\ thread_count' = CreateThreadCount(requested)
    /\ worker_pc' = [w \in Workers |-> IF w <= thread_count' THEN "lock" ELSE "none"]
    /\ created' = TRUE
    /\ UNCHANGED <<stop_flag, pause_flag, running_tasks, queue_size,
                   task_queue_head, task_queue_tail, task_next, queue_mutex,
                   pool_freed, worker_task, thrd_joined, caller_pc, join_i,
                   getter_pc, getter_result, getter_value, enqueued,
                   result_ready, result_value, result_freed, task_fate, fault>>
    /\ UNCHANGED <<cppVars, requested, hw, constructed>>

\* The nodes of the list that starts at h.
RECURSIVE ListFrom(_)
ListFrom(h) == IF h = 0 THEN {} ELSE {h} \cup ListFrom(task_next[h])

\* The getters parked on the result_cv of task t's result.
ParkedOn(t) == {g \in Getters : getter_pc[g] = "get_waiting" /\ getter_result[g] = t}

\* cnd_signal(&result->result_cv) for every result in ts: one parked getter of
\* each is woken; picked[t] is that getter (0: nobody is parked).
SignalPicks(ts) ==
    {picked \in [Tasks -> 0..NumGetters] :
        \A t \in Tasks : IF t \in ts /\ ParkedOn(t) # {}
                           THEN picked[t] \in ParkedOn(t)
                           ELSE picked[t] = 0}
AfterSignal(picked) ==
    [g \in Getters |-> IF \E t \in Tasks : picked[t] = g THEN "get_lock"
                       ELSE getter_pc[g]]

\* cnd_broadcast(&pool->queue_cv) and cnd_broadcast(&pool->wait_cv).
BroadcastQueueCv(p) == [w \in Workers |-> IF p[w] = "waiting" THEN "lock" ELSE p[w]]
BroadcastWaitCv(p) ==
    [c \in Clients |-> IF p[c] = "wait_waiting" THEN "wait_lock" ELSE p[c]]

----------------------------------------------------------------------------
\* worker_loop, ThreadPool.c lines 544-603

\* Line 550: the condition of the wait loop.
WorkerWaitCondition == (task_queue_head = 0 \/ pause_flag) /\ ~stop_flag
\* Line 238: the condition of the wait loop in the first version of the file.
FirstWorkerWaitCondition == task_queue_head = 0 /\ ~stop_flag

\* Lines 569-571 if the tail were left alone when the last node is unlinked.
TailAfterUnlinkKept(task) == task_queue_tail
\* Lines 569-571: the tail once task, the head, is unlinked.
TailAfterUnlink(task) == IF task_next[task] = 0 THEN 0 ELSE task_queue_tail

\* Lines 550-576 (first version: 238-264), with the mutex held: wait while
\* mustWait; leave if stopped and empty; unlock and go back to the top if
\* paused; else unlink the head.
WorkerLoopTop(w, mustWait) ==
    /\ IF mustWait
         THEN /\ worker_pc' = [worker_pc EXCEPT ![w] = "waiting"]
              /\ UNCHANGED <<task_queue_head, task_queue_tail, task_next,
                             queue_size, running_tasks, worker_task, task_fate>>
         ELSE IF stop_flag /\ task_queue_head = 0
           THEN /\ worker_pc' = [worker_pc EXCEPT ![w] = "exited"]
                /\ UNCHANGED <<task_queue_head, task_queue_tail, task_next,
                               queue_size, running_tasks, worker_task, task_fate>>
           ELSE IF pause_flag
             THEN /\ worker_pc' = [worker_pc EXCEPT ![w] = "continue"]
                  /\ UNCHANGED <<task_queue_head, task_queue_tail, task_next,
                                 queue_size, running_tasks, worker_task, task_fate>>
             ELSE LET task == task_queue_head
                  IN /\ task_queue_head' = task_next[task]
                     /\ task_queue_tail' = TailAfterUnlink(task)
                     /\ queue_size' = queue_size - 1
                     /\ running_tasks' = running_tasks + 1
                     /\ worker_task' = [worker_task EXCEPT ![w] = task]
                     /\ task_fate' = [task_fate EXCEPT ![task] = "dequeued"]
                     /\ worker_pc' = [worker_pc EXCEPT ![w] = "exec"]
                     /\ UNCHANGED task_next
    /\ UNCHANGED <<stop_flag, pause_flag, queue_mutex, pool_freed, thrd_joined,
                   caller_pc, join_i, getter_pc, getter_result, getter_value,
                   enqueued, result_ready, result_value, fault, result_freed>>
    /\ UNCHANGED <<cppVars, createVars>>

\* Lines 546-576 of worker_loop.
CWorkerLock(w) ==
    /\ worker_pc[w] = "lock"
    /\ queue_mutex = 0
    /\ WorkerLoopTop(w, WorkerWaitCondition)

\* Lines 234-264 of the first version of worker_loop.
FirstWorkerLock(w) ==
    /\ worker_pc[w] = "lock"
    /\ queue_mutex = 0
    /\ WorkerLoopTop(w, FirstWorkerWaitCondition)

\* Line 561 (first version: 249): continue, back to the top of the loop.
CWorkerContinue(w) ==
    /\ worker_pc[w] = "continue"
    /\ worker_pc' = [worker_pc EXCEPT ![w] = "lock"]
    /\ UNCHANGED <<stop_flag, pause_flag, running_tasks, queue_size,
                   task_queue_head, task_queue_tail, task_next, queue_mutex,
                   pool_freed, worker_task, thrd_joined, caller_pc, join_i,
                   getter_pc, getter_result, getter_value, enqueued,
                   result_ready, result_value, result_freed, task_fate, fault>>
    /\ UNCHANGED <<cppVars, createVars>>

\* cnd_wait may return without a signal.
CWorkerSpuriousWakeup(w) ==
    /\ worker_pc[w] = "waiting"
    /\ worker_pc' = [worker_pc EXCEPT ![w] = "lock"]
    /\ UNCHANGED <<stop_flag, pause_flag, running_tasks, queue_size,
                   task_queue_head, task_queue_tail, task_next, queue_mutex,
                   pool_freed, worker_task, thrd_joined, caller_pc, join_i,
                   getter_pc, getter_result, getter_value, enqueued, result_ready,
                   result_value, task_fate, fault, result_freed>>
    /\ UNCHANGED <<cppVars, createVars>>

\* Lines 580-591: run the function, store its value in the result, signal one
\* waiter of the result, free the task.  task->result is never NULL, so lines
\* 584-588 run also when taskresult_destroy has freed the result: they lock a
\* destroyed mutex and write to freed memory, which is undefined; the worker
\* may go on or crash.
CWorkerRun(w) ==
    /\ worker_pc[w] = "exec"
    /\ LET task == worker_task[w]
       IN /\ IF result_freed[task]
               THEN /\ fault' = fault \cup {"result_use_after_free"}
                    /\ \E outcome \in {"dec", "crashed"} :
                         worker_pc' = [worker_pc EXCEPT ![w] = outcome]
                    /\ UNCHANGED <<result_value, result_ready, getter_pc>>
               ELSE /\ \E v \in TaskValues, picked \in SignalPicks({task}) :
                         /\ result_value' = [result_value EXCEPT ![task] = v]
                         /\ result_ready' = [result_ready EXCEPT ![task] = TRUE]
                         /\ getter_pc' = AfterSignal(picked)
                    /\ worker_pc' = [worker_pc EXCEPT ![w] = "dec"]
                    /\ UNCHANGED fault
          /\ task_fate' = [task_fate EXCEPT ![task] = "executed"]
          /\ task_next' = [task_next EXCEPT ![task] = 0]
    /\ UNCHANGED <<stop_flag, pause_flag, running_tasks, queue_size,
                   task_queue_head, task_queue_tail, queue_mutex, pool_freed,
                   worker_task, thrd_joined, caller_pc, join_i, getter_result,
                   getter_value, enqueued, result_freed>>
    /\ UNCHANGED <<cppVars, createVars>>

\* Lines 593-598: decrement running_tasks; broadcast wait_cv if idle and not
\* stopped.
CWorkerDec(w) ==
    /\ worker_pc[w] = "dec"
    /\ queue_mutex = 0
    /\ running_tasks' = running_tasks - 1
    /\ caller_pc' = IF ~stop_flag /\ queue_size = 0 /\ running_tasks - 1 = 0
                      THEN BroadcastWaitCv(caller_pc) ELSE caller_pc
    /\ worker_pc' = [worker_pc EXCEPT ![w] = "lock"]
    /\ worker_task' = [worker_task EXCEPT ![w] = 0]
    /\ UNCHANGED <<stop_flag, pause_flag, queue_size, task_queue_head,
                   task_queue_tail, task_next, queue_mutex, pool_freed,
                   thrd_joined, join_i, getter_pc, getter_result, getter_value,
                   enqueued, result_ready, result_value, task_fate, fault, result_freed>>
    /\ UNCHANGED <<cppVars, createVars>>

----------------------------------------------------------------------------
\* Callers of the pool functions.
CCanStart(c) == caller_pc[c] = "idle" /\ \A d \in Clients : d < c => caller_pc[d] # "idle"

\* Lines 410-417 if the new task were linked in front of the head.
LinkNewTaskAtHead(new_task) ==
    /\ task_next' = [task_next EXCEPT ![new_task] = task_queue_head]
    /\ task_queue_head' = new_task
    /\ task_queue_tail' = IF task_queue_tail = 0 THEN new_task ELSE task_queue_tail

\* Lines 410-417: link the new task behind the tail.
LinkNewTask(new_task) ==
    /\ IF task_queue_tail = 0
         THEN /\ task_queue_head' = new_task
              /\ UNCHANGED task_next
         ELSE /\ task_next' = [task_next EXCEPT ![task_queue_tail] = new_task]
              /\ UNCHANGED task_queue_head
    /\ task_queue_tail' = new_task

\* threadpool_enqueue, lines 379-427, on a pool that exists.
CEnqueue(c) ==
    /\ CCanStart(c)
    /\ ~pool_freed
    /\ queue_mutex = 0
    /\ IF stop_flag
         THEN /\ caller_pc' = [caller_pc EXCEPT ![c] = "enq_reject"]
              /\ UNCHANGED <<task_queue_head, task_queue_tail, task_next,
                             queue_size, enqueued, task_fate, worker_pc>>
         ELSE /\ enqueued < MaxTasks
              /\ LET new_task == enqueued + 1
                 IN /\ LinkNewTask(new_task)
                    /\ queue_size' = queue_size + 1
                    /\ enqueued' = new_task
                    /\ task_fate' = [task_fate EXCEPT ![new_task] = "queued"]
              /\ IF ~pause_flag /\ \E w \in Workers : worker_pc[w] = "waiting"
                   THEN \E w \in Workers :
                          /\ worker_pc[w] = "waiting"
                          /\ worker_pc' = [worker_pc EXCEPT ![w] = "lock"]
                   ELSE UNCHANGED worker_pc
              /\ UNCHANGED caller_pc
    /\ UNCHANGED <<stop_flag, pause_flag, running_tasks, queue_mutex, pool_freed,
                   worker_task, thrd_joined, join_i, getter_pc, getter_result,
                   getter_value, result_ready, result_value, fault, result_freed>>
    /\ UNCHANGED <<cppVars, createVars>>

\* Line 406: threadpool_enqueue returns NULL.
CEnqueueReturnNull(c) ==
    /\ caller_pc[c] = "enq_reject"
    /\ caller_pc' = [caller_pc EXCEPT ![c] = "idle"]
    /\ UNCHANGED <<stop_flag, pause_flag, running_tasks, queue_size,
                   task_queue_head, task_queue_tail, task_next, queue_mutex,
                   pool_freed, worker_pc, worker_task, thrd_joined, join_i,
                   getter_pc, getter_result, getter_value, enqueued, result_ready,
                   result_value, task_fate, fault, result_freed>>
    /\ UNCHANGED <<cppVars, createVars>>

\* threadpool_wait, line 432, without the test of running_tasks.
WaitLoopConditionQueueOnly == queue_size > 0
\* threadpool_wait, line 432: the condition of the wait loop.
WaitLoopCondition == queue_size > 0 \/ running_tasks > 0

\* threadpool_wait, lines 429-434: lock and test the loop condition (first,
\* and again after each wake-up); cnd_wait unlocks and parks atomically.
CWaitLock(c) ==
    /\ CCanStart(c) \/ caller_pc[c] = "wait_lock"
    /\ ~pool_freed
    /\ queue_mutex = 0
    /\ IF WaitLoopCondition
         THEN /\ caller_pc' = [caller_pc EXCEPT ![c] = "wait_waiting"]
              /\ UNCHANGED queue_mutex
         ELSE /\ caller_pc' = [caller_pc EXCEPT ![c] = "wait_ret"]
              /\ queue_mutex' = ClientId(c)
    /\ UNCHANGED <<stop_flag, pause_flag, running_tasks, queue_size,
                   task_queue_head, task_queue_tail, task_next, pool_freed,
                   worker_pc, worker_task, thrd_joined, join_i, getter_pc,
                   getter_result, getter_value, enqueued, result_ready,
                   result_value, task_fate, fault, result_freed>>
    /\ UNCHANGED <<cppVars, createVars>>

\* cnd_wait may return without a signal.
CWaitSpuriousWakeup(c) ==
    /\ caller_pc[c] = "wait_waiting"
    /\ caller_pc' = [caller_pc EXCEPT ![c] = "wait_lock"]
    /\ UNCHANGED <<stop_flag, pause_flag, running_tasks, queue_size,
                   task_queue_head, task_queue_tail, task_next, queue_mutex,
                   pool_freed, worker_pc, worker_task, thrd_joined, join_i,
                   getter_pc, getter_result, getter_value, enqueued, result_ready,
                   result_value, task_fate, fault, result_freed>>
    /\ UNCHANGED <<cppVars, createVars>>

\* Line 435: threadpool_wait unlocks and returns.
CWaitReturn(c) ==
    /\ caller_pc[c] = "wait_ret"
    /\ caller_pc' = [caller_pc EXCEPT ![c] = "idle"]
    /\ queue_mutex' = 0
    /\ UNCHANGED <<stop_flag, pause_flag, running_tasks, queue_size,
                   task_queue_head, task_queue_tail, task_next, pool_freed,
                   worker_pc, worker_task, thrd_joined, join_i, getter_pc,
                   getter_result, getter_value, enqueued, result_ready,
                   result_value, task_fate, fault, result_freed>>
    /\ UNCHANGED <<cppVars, createVars>>

\* threadpool_pause, lines 438-442.
CPause(c) ==
    /\ CCanStart(c)
    /\ ~pool_freed
    /\ queue_mutex = 0
    /\ pause_flag' = TRUE
    /\ UNCHANGED <<stop_flag, running_tasks, queue_size, task_queue_head,
                   task_queue_tail, task_next, queue_mutex, pool_freed, worker_pc,
                   worker_task, thrd_joined, caller_pc, join_i, getter_pc,
                   getter_result, getter_value, enqueued, result_ready,
                   result_value, task_fate, fault, result_freed>>
    /\ UNCHANGED <<cppVars, createVars>>

\* threadpool_resume, lines 444-452.
CResume(c) ==
    /\ CCanStart(c)
    /\ ~pool_freed
    /\ queue_mutex = 0
    /\ IF pause_flag
         THEN /\ pause_flag' = FALSE
              /\ worker_pc' = BroadcastQueueCv(worker_pc)
         ELSE UNCHANGED <<pause_flag, worker_pc>>
    /\ UNCHANGED <<stop_flag, running_tasks, queue_size, task_queue_head,
                   task_queue_tail, task_next, queue_mutex, pool_freed,
                   worker_task, thrd_joined, caller_pc, join_i, getter_pc,
                   getter_result, getter_value, enqueued, result_ready,
                   result_value, task_fate, fault, result_freed>>
    /\ UNCHANGED <<cppVars, createVars>>

\* threadpool_clear_queue if it also completed the results of the tasks that
\* workers are running.
ClearQueueLockedAndRunning(c, pcAfter) ==
    LET nodes == ListFrom(task_queue_head)
        held == {worker_task[w] : w \in {v \in Workers : worker_pc[v] = "exec"}}
        live == {t \in nodes \cup held : ~result_freed[t]}
    IN /\ \E picked \in SignalPicks(live) : getter_pc' = AfterSignal(picked)
       /\ result_value' = [t \in Tasks |-> IF t \in live THEN CLEARED_RESULT_VALUE
                                           ELSE result_value[t]]
       /\ result_ready' = [t \in Tasks |-> t \in live \/ result_ready[t]]
       /\ fault' = IF nodes \subseteq live THEN fault
                   ELSE fault \cup {"result_use_after_free"}
       /\ task_fate' = [t \in Tasks |-> IF t \in nodes THEN "discarded"
                                        ELSE task_fate[t]]
       /\ task_next' = [t \in Tasks |-> IF t \in nodes THEN 0 ELSE task_next[t]]
       /\ task_queue_head' = 0
       /\ task_queue_tail' = 0
       /\ queue_size' = 0
       /\ caller_pc' = [(IF running_tasks = 0 THEN BroadcastWaitCv(caller_pc)
                         ELSE caller_pc) EXCEPT ![c] = pcAfter]

\* threadpool_clear_queue, lines 455-484, as run by caller c; pcAfter is where
\* c stands afterwards.  Lines 464-468 run also on a result that
\* taskresult_destroy has freed, which is undefined.
ClearQueueLocked(c, pcAfter) ==
    LET nodes == ListFrom(task_queue_head)
        live == {t \in nodes : ~result_freed[t]}
    IN /\ \E picked \in SignalPicks(live) : getter_pc' = AfterSignal(picked)
       /\ result_value' = [t \in Tasks |-> IF t \in live THEN CLEARED_RESULT_VALUE
                                           ELSE result_value[t]]
       /\ result_ready' = [t \in Tasks |-> t \in live \/ result_ready[t]]
       /\ fault' = IF live = nodes THEN fault
                   ELSE fault \cup {"result_use_after_free"}
       /\ task_fate' = [t \in Tasks |-> IF t \in nodes THEN "discarded"
                                        ELSE task_fate[t]]
       /\ task_next' = [t \in Tasks |-> IF t \in nodes THEN 0 ELSE task_next[t]]
       /\ task_queue_head' = 0
       /\ task_queue_tail' = 0
       /\ queue_size' = 0
       /\ caller_pc' = [(IF running_tasks = 0 THEN BroadcastWaitCv(caller_pc)
                         ELSE caller_pc) EXCEPT ![c] = pcAfter]

CClearQueue(c) ==
    /\ CCanStart(c)
    /\ ~pool_freed
    /\ queue_mutex = 0
    /\ ClearQueueLocked(c, "idle")
    /\ UNCHANGED <<stop_flag, pause_flag, running_tasks, queue_mutex, pool_freed,
                   worker_pc, worker_task, thrd_joined, join_i, getter_result,
                   getter_value, enqueued, result_freed>>
    /\ UNCHANGED <<cppVars, createVars>>

\* threadpool_shutdown, lines 488-494.
CShutdownLock(c) ==
    /\ CCanStart(c)
    /\ ~pool_freed
    /\ queue_mutex = 0
    /\ stop_flag' = TRUE
    /\ pause_flag' = FALSE
    /\ caller_pc' = [caller_pc EXCEPT ![c] = "sd_broadcast_queue"]
    /\ UNCHANGED <<running_tasks, queue_size, task_queue_head, task_queue_tail,
                   task_next, queue_mutex, pool_freed, worker_pc, worker_task,
                   thrd_joined, join_i, getter_pc, getter_result, getter_value,
                   enqueued, result_ready, result_value, task_fate, fault, result_freed>>
    /\ UNCHANGED <<cppVars, createVars>>

\* threadpool_shutdown, line 497.
CShutdownBroadcastQueue(c) ==
    /\ caller_pc[c] = "sd_broadcast_queue"
    /\ ~pool_freed
    /\ worker_pc' = BroadcastQueueCv(worker_pc)
    /\ caller_pc' = [caller_pc EXCEPT ![c] = "sd_broadcast_wait"]
    /\ UNCHANGED <<stop_flag, pause_flag, running_tasks, queue_size,
                   task_queue_head, task_queue_tail, task_next, queue_mutex,
                   pool_freed, worker_task, thrd_joined, join_i, getter_pc,
                   getter_result, getter_value, enqueued, result_ready,
                   result_value, task_fate, fault, result_freed>>
    /\ UNCHANGED <<cppVars, createVars>>

\* threadpool_shutdown, line 498.
CShutdownBroadcastWait(c) ==
    /\ caller_pc[c] = "sd_broadcast_wait"
    /\ ~pool_freed
    /\ caller_pc' = [BroadcastWaitCv(caller_pc) EXCEPT ![c] = "sd_join"]
    /\ join_i' = [join_i EXCEPT ![c] = 1]
    /\ UNCHANGED <<stop_flag, pause_flag, running_tasks, queue_size,
                   task_queue_head, task_queue_tail, task_next, queue_mutex,
                   pool_freed, worker_pc, worker_task, thrd_joined, getter_pc,
                   getter_result, getter_value, enqueued, result_ready,
                   result_value, task_fate, fault, result_freed>>
    /\ UNCHANGED <<cppVars, createVars>>

\* threadpool_shutdown, lines 501-505: thrd_join(pool->threads[i]) returns once
\* the worker has left worker_loop.  Joining a thread that was joined before is
\* undefined.
CShutdownJoin(c) ==
    /\ caller_pc[c] = "sd_join"
    /\ ~pool_freed
    /\ join_i[c] <= NumWorkers
    /\ worker_pc[join_i[c]] = "exited"
    /\ thrd_joined' = [thrd_joined EXCEPT ![join_i[c]] = @ + 1]
    /\ fault' = IF thrd_joined[join_i[c]] > 0 THEN fault \cup {"thrd_join_twice"}
                ELSE fault
    /\ join_i' = [join_i EXCEPT ![c] = @ + 1]
    /\ UNCHANGED <<stop_flag, pause_flag, running_tasks, queue_size,
                   task_queue_head, task_queue_tail, task_next, queue_mutex,
                   pool_freed, worker_pc, worker_task, caller_pc, getter_pc,
                   getter_result, getter_value, enqueued, result_ready,
                   result_value, task_fate, result_freed>>
    /\ UNCHANGED <<cppVars, createVars>>

\* threadpool_shutdown, line 507.
CShutdownClearQueue(c) ==
    /\ caller_pc[c] = "sd_join"
    /\ ~pool_freed
    /\ join_i[c] > NumWorkers
    /\ queue_mutex = 0
    /\ ClearQueueLocked(c, "sd_cleanup")
    /\ UNCHANGED <<stop_flag, pause_flag, running_tasks, queue_mutex, pool_freed,
                   worker_pc, worker_task, thrd_joined, join_i, getter_result,
                   getter_value, enqueued, result_freed>>
    /\ UNCHANGED <<cppVars, createVars>>

\* threadpool_cleanup_resources, lines 513-524: destroy the mutex and the
\* condition variables, free the pool.
CShutdownCleanup(c) ==
    /\ caller_pc[c] = "sd_cleanup"
    /\ ~pool_freed
    /\ pool_freed' = TRUE
    /\ caller_pc' = [caller_pc EXCEPT ![c] = "idle"]
    /\ join_i' = [join_i EXCEPT ![c] = 0]
    /\ UNCHANGED <<stop_flag, pause_flag, running_tasks, queue_size,
                   task_queue_head, task_queue_tail, task_next, queue_mutex,
                   worker_pc, worker_task, thrd_joined, getter_pc, getter_result,
                   getter_value, enqueued, result_ready, result_value, task_fate,
                   fault, result_freed>>
    /\ UNCHANGED <<cppVars, createVars>>

\* A call in progress goes on to use the pool after another thread's
\* threadpool_shutdown has freed it: undefined behaviour.
CUseAfterFree(c) ==
    /\ pool_freed
    /\ caller_pc[c] \in {"wait_lock", "wait_waiting", "sd_broadcast_queue",
                         "sd_broadcast_wait", "sd_join", "sd_cleanup"}
    /\ fault' = fault \cup {"use_after_free"}
    /\ caller_pc' = [caller_pc EXCEPT ![c] = "crashed"]
    /\ UNCHANGED <<stop_flag, pause_flag, running_tasks, queue_size,
                   task_queue_head, task_queue_tail, task_next, queue_mutex,
                   pool_freed, worker_pc, worker_task, thrd_joined, join_i,
                   getter_pc, getter_result, getter_value, enqueued, result_ready,
                   result_value, task_fate, result_freed>>
    /\ UNCHANGED <<cppVars, createVars>>

\* threadpool_enqueue, line 399, on a pool that threadpool_shutdown has freed:
\* mtx_lock on a destroyed mutex and a read of stop_flag in freed memory are
\* undefined; the call may seem to reject, or do anything else.
CEnqueueOnFreedPool(c) ==
    /\ CCanStart(c)
    /\ pool_freed
    /\ fault' = fault \cup {"enqueue_after_free"}
    /\ \E outcome \in {"enq_reject", "enq_undefined"} :
         caller_pc' = [caller_pc EXCEPT ![c] = outcome]
    /\ UNCHANGED <<stop_flag, pause_flag, running_tasks, queue_size,
                   task_queue_head, task_queue_tail, task_next, queue_mutex,
                   pool_freed, worker_pc, worker_task, thrd_joined, join_i,
                   getter_pc, getter_result, getter_value, enqueued, result_ready,
                   result_value, task_fate, result_freed>>
    /\ UNCHANGED <<cppVars, createVars>>

\* threadpool_shutdown, line 490, on a pool that an earlier threadpool_shutdown
\* has freed: the pointer is not NULL, so the call locks a destroyed mutex in
\* freed memory, joins the joined threads again and frees again; undefined.
CShutdownOnFreedPool(c) ==
    /\ CCanStart(c)
    /\ pool_freed
    /\ fault' = fault \cup {"shutdown_after_free"}
    /\ \E outcome \in {"idle", "crashed"} :
         caller_pc' = [caller_pc EXCEPT ![c] = outcome]
    /\ UNCHANGED <<stop_flag, pause_flag, running_tasks, queue_size,
                   task_queue_head, task_queue_tail, task_next, queue_mutex,
                   pool_freed, worker_pc, worker_task, thrd_joined, join_i,
                   getter_pc, getter_result, getter_value, enqueued, result_ready,
                   result_value, task_fate, result_freed>>
    /\ UNCHANGED <<cppVars, createVars>>

----------------------------------------------------------------------------
\* Threads that call taskresult_get on the results threadpool_enqueue returned.
CanStartGet(g) == getter_pc[g] = "idle" /\ \A h \in Getters : h < g => getter_pc[h] # "idle"

\* taskresult_get, lines 368-373, on result t: lock; cnd_wait while not ready
\* (unlocks and parks atomically); else read the value.
GetLocked(g, t) ==
    /\ ~result_freed[t]
    /\ IF result_ready[t]
         THEN /\ getter_pc' = [getter_pc EXCEPT ![g] = "get_ret"]
              /\ getter_value' = [getter_value EXCEPT ![g] = result_value[t]]
         ELSE /\ getter_pc' = [getter_pc EXCEPT ![g] = "get_waiting"]
              /\ UNCHANGED getter_value
    /\ getter_result' = [getter_result EXCEPT ![g] = t]

TaskresultGet(g) ==
    /\ \/ CanStartGet(g) /\ \E t \in 1..enqueued : GetLocked(g, t)
       \/ getter_pc[g] = "get_lock" /\ GetLocked(g, getter_result[g])
    /\ UNCHANGED <<stop_flag, pause_flag, running_tasks, queue_size,
                   task_queue_head, task_queue_tail, task_next, queue_mutex,
                   pool_freed, worker_pc, worker_task, thrd_joined, caller_pc,
                   join_i, enqueued, result_ready, result_value, task_fate, fault,
                   result_freed>>
    /\ UNCHANGED <<cppVars, createVars>>

\* cnd_wait may return without a signal.
GetSpuriousWakeup(g) ==
    /\ getter_pc[g] = "get_waiting"
    /\ getter_pc' = [getter_pc EXCEPT ![g] = "get_lock"]
    /\ UNCHANGED <<stop_flag, pause_flag, running_tasks, queue_size,
                   task_queue_head, task_queue_tail, task_next, queue_mutex,
                   pool_freed, worker_pc, worker_task, thrd_joined, caller_pc,
                   join_i, getter_result, getter_value, enqueued, result_ready,
                   result_value, task_fate, fault, result_freed>>
    /\ UNCHANGED <<cppVars, createVars>>

\* taskresult_get, lines 374-376: unlock and return the value.
TaskresultGetReturn(g) ==
    /\ getter_pc[g] = "get_ret"
    /\ getter_pc' = [getter_pc EXCEPT ![g] = "idle"]
    /\ getter_result' = [getter_result EXCEPT ![g] = 0]
    /\ getter_value' = [getter_value EXCEPT ![g] = 0]
    /\ UNCHANGED <<stop_flag, pause_flag, running_tasks, queue_size,
                   task_queue_head, task_queue_tail, task_next, queue_mutex,
                   pool_freed, worker_pc, worker_task, thrd_joined, caller_pc,
                   join_i, enqueued, result_ready, result_value, task_fate, fault,
                   result_freed>>
    /\ UNCHANGED <<cppVars, createVars>>

\* taskresult_destroy, lines 358-363, on a result no thread is reading: the
\* caller gives the handle up, whether or not its task has run.
TaskresultDestroy(g) ==
    /\ CanStartGet(g)
    /\ \E t \in 1..enqueued :
         /\ ~result_freed[t]
         /\ \A h \in Getters : getter_result[h] # t
         /\ result_freed' = [result_freed EXCEPT ![t] = TRUE]
    /\ UNCHANGED <<stop_flag, pause_flag, running_tasks, queue_size,
                   task_queue_head, task_queue_tail, task_next, queue_mutex,
                   pool_freed, worker_pc, worker_task, thrd_joined, caller_pc,
                   join_i, getter_pc, getter_result, getter_value, enqueued,
                   result_ready, result_value, task_fate, fault>>
    /\ UNCHANGED <<cppVars, createVars>>

CWorkerStep(w) ==
    \/ CWorkerLock(w)
    \/ CWorkerContinue(w)
    \/ CWorkerSpuriousWakeup(w)
    \/ CWorkerRun(w)
    \/ CWorkerDec(w)

CCallerStep(c) ==
    \/ CEnqueue(c)
    \/ CEnqueueReturnNull(c)
    \/ CWaitLock(c)
    \/ CWaitSpuriousWakeup(c)
    \/ CWaitReturn(c)
    \/ CPause(c)
    \/ CResume(c)
    \/ CClearQueue(c)
    \/ CShutdownLock(c)
    \/ CShutdownBroadcastQueue(c)
    \/ CShutdownBroadcastWait(c)
    \/ CShutdownJoin(c)
    \/ CShutdownClearQueue(c)
    \/ CShutdownCleanup(c)
    \/ CUseAfterFree(c)
    \/ CEnqueueOnFreedPool(c)
    \/ CShutdownOnFreedPool(c)

GetterStep(g) ==
    \/ TaskresultDestroy(g)
    \/ TaskresultGet(g)
    \/ GetSpuriousWakeup(g)
    \/ TaskresultGetReturn(g)

CNext ==
    \/ \E w \in Workers : CWorkerStep(w)
    \/ \E c \in Clients : CCallerStep(c)
    \/ \E g \in Getters : GetterStep(g)

\* ========================================================= specifications
\* Both pools built: the C++ pool on a host with NumWorkers hardware threads,
\* the C pool with NumWorkers threads.
Init ==
    /\ CppInit
    /\ CInit
    /\ requested = threadCount
    /\ hw = NumWorkers
    /\ thread_count = NumWorkers
    /\ constructed = TRUE
    /\ created = TRUE

\* The C++ pool alone.
SpecCpp == Init /\ [][CppNext]_vars
\* The C pool alone; the C++ pool beside it is not used, whatever its size.
CPoolInit == Init /\ threadCount = NumWorkers
SpecC == CPoolInit /\ [][CNext]_vars

\* The first version of the C pool in ThreadPool.c (lines 1-287): its
\* worker_loop with the callers of threadpool_enqueue, threadpool_pause and
\* threadpool_resume, which are the same in the two versions.
FirstWorkerStep(w) ==
    \/ FirstWorkerLock(w)
    \/ CWorkerContinue(w)
    \/ CWorkerSpuriousWakeup(w)
    \/ CWorkerRun(w)
    \/ CWorkerDec(w)

FirstCallerStep(c) ==
    \/ CEnqueue(c)
    \/ CPause(c)
    \/ CResume(c)

FirstNext ==
    \/ \E w \in Workers : FirstWorkerStep(w)
    \/ \E c \in Clients : FirstCallerStep(c)

SpecCFirst == CPoolInit /\ [][FirstNext]_vars
Spec == SpecCpp

\* The two constructors applied to every requested thread count on every host.
CreateInit ==
    /\ requested \in 0..MaxRequest
    /\ hw \in 0..MaxHardware
    /\ constructed = FALSE
    /\ created = FALSE
    /\ threadCount = 0
    /\ thread_count = 0
    /\ wpc = [w \in Workers |-> "none"]
    /\ joinable = [w \in Workers |-> FALSE]
    /\ worker_pc = [w \in Workers |-> "none"]
    /\ CppFieldsInit
    /\ CFieldsInit
CreateNext == Constructor \/ ThreadpoolCreate
SpecCreate == CreateInit /\ [][CreateNext]_vars

\* The C++ pool with threads that call enqueue() and shutdown() only, with
\* payloads that terminate, under fair scheduling: a thread that can again
\* and again take its next step in workerLoop, or in a call it has begun,
\* eventually takes it (a thread contending for queueMutex_ is not starved for
\* ever).  No thread is obliged to begin a call, and no wait is obliged to
\* wake without a notification.
WorkerProgress(w) ==
    \/ WorkerLock(w)
    \/ WorkerBlock(w)
    \/ WorkerPauseCheck(w)
    \/ WorkerPop(w)
    \/ WorkerInc(w)
    \/ PayloadReturns(w)
    \/ PayloadThrows(w)
    \/ WorkerDec(w)

ClientProgress(c) ==
    /\ cpc[c] # "idle"
    /\ \/ EnqueueThrow(c)
       \/ EnqueueNotify(c)
       \/ ShutdownNotifyQueue(c)
       \/ ShutdownNotifyWait(c)
       \/ ShutdownJoinCheck(c)
       \/ ShutdownJoin(c)

WorkerLiveStep(w) == WorkerProgress(w) \/ WorkerSpuriousWakeup(w)

ClientLiveStep(c) ==
    \/ Enqueue(c)
    \/ EnqueueThrow(c)
    \/ EnqueueNotify(c)
    \/ ShutdownLock(c)
    \/ ShutdownNotifyQueue(c)
    \/ ShutdownNotifyWait(c)
    \/ ShutdownJoinCheck(c)
    \/ ShutdownJoin(c)

CppLiveNext ==
    \/ \E w \in Workers : WorkerLiveStep(w)
    \/ \E c \in Clients : ClientLiveStep(c)

SpecCppLive ==
    /\ Init
    /\ [][CppLiveNext]_vars
    /\ \A w \in Workers : SF_vars(WorkerProgress(w))
    /\ \A c \in Clients : SF_vars(ClientProgress(c))

\* The C++ pool, never paused and never shut down, with threads that call
\* enqueue() and wait(), with payloads that terminate, under the same fair
\* scheduling: a thread inside wait() that can again and again take the mutex
\* eventually takes it.
WaitProgress(c) ==
    \/ cpc[c] = "wait_lock" /\ WaitLock(c)
    \/ WaitBlock(c)
    \/ WaitReturn(c)
    \/ EnqueueNotify(c)

ClientWaitLiveStep(c) ==
    \/ Enqueue(c)
    \/ EnqueueNotify(c)
    \/ WaitLock(c)
    \/ WaitBlock(c)
    \/ WaitSpuriousWakeup(c)
    \/ WaitReturn(c)

CppWaitLiveNext ==
    \/ \E w \in Workers : WorkerLiveStep(w)
    \/ \E c \in Clients : ClientWaitLiveStep(c)

SpecCppWaitLive ==
    /\ Init
    /\ [][CppWaitLiveNext]_vars
    /\ \A w \in Workers : SF_vars(WorkerProgress(w))
    /\ \A c \in Clients : SF_vars(WaitProgress(c))

\* ================================================================ properties
\* A worker's dequeue step (lines 233-239 of ThreadPool.hpp).
Dequeues(w) == wpc[w] = "pop" /\ wpc'[w] = "inc"

\* C1: whenever a worker dequeues a task, the task it takes has a priority no
\* lower than that of every task left in the queue at that moment; submission
\* order plays no part.
C1_DequeueHighestPriority ==
    [][\A w \in Threads :
         Dequeues(w) => \A u \in taskQueue' : priority[work'[w]] >= priority[u]]_vars

\* C1, the case: task 2, submitted after task 1 with a higher priority, has
\* just been dequeued while task 1 is still queued.
C1_Witness ==
    \E w \in Threads :
        /\ wpc[w] = "inc"
        /\ work[w] = 2
        /\ priority[2] = HIGH_PRIORITY
        /\ 1 \in taskQueue
        /\ priority[1] = DEFAULT_PRIORITY

\* A worker holds a task it has dequeued and not finished.
HoldsTask(w) == wpc[w] \in {"inc", "exec", "dec", "twait_block", "twait_waiting",
                            "twait_lock"}

\* C2: a wait() call returns only when the queue is empty and no task that was
\* dequeued is still unfinished.
C2_WaitReturnsOnlyWhenIdle ==
    \A c \in Clients :
        cpc[c] = "wait_ret" => taskQueue = {} /\ \A w \in Threads : ~HoldsTask(w)

\* C3 (C pool): a threadpool_enqueue call made once stop_flag is set changes
\* nothing in the pool and ends in the rejection of line 406.
C3_SubmitAfterStopRejected ==
    [][\A c \in Clients :
         (stop_flag /\ caller_pc[c] = "idle"
            /\ caller_pc'[c] \in {"enq_reject", "enq_undefined"})
         => /\ caller_pc'[c] = "enq_reject"
            /\ UNCHANGED <<queue_size, task_queue_head, task_queue_tail,
                           task_next, enqueued, running_tasks>>]_vars

\* C4: no wait() caller is ever left parked on waitCV_ while the pool is
\* paused, not stopped, has queued work and nothing running: wait() is to
\* fail in that situation, not block.
C4_WaitFailsWhenPausedWithPending ==
    ~ \E c \in Clients :
        /\ cpc[c] = "wait_waiting"
        /\ pauseFlag /\ ~stopFlag
        /\ taskQueue # {}
        /\ runningTasks = 0
        /\ \A w \in Threads : wpc[w] = "waiting"

\* C5: a payload that calls wait() on its own pool never parks its worker on
\* waitCV_: the call is to fail at once.
C5_NoSelfWaitBlocks ==
    \A w \in Threads : wpc[w] \notin {"twait_block", "twait_waiting"}

\* C6 (C pool): once a task has been discarded from the queue, no
\* taskresult_get caller is still parked on its result.
C6_ClearedHandleReleasesGetters ==
    \A g \in Getters :
        getter_pc[g] = "get_waiting" => task_fate[getter_result[g]] # "discarded"

\* C7 (C pool): the result of a task that was discarded reads differently from
\* the result of a task that ran.
C7_CancelledDistinguishable ==
    \A t, u \in Tasks :
        (task_fate[t] = "discarded" /\ task_fate[u] = "executed")
        => <<result_ready[t], result_value[t]>> # <<result_ready[u], result_value[u]>>

\* A step of a shutdown() call that began after an earlier shutdown() returned.
SecondShutdownStep(c) ==
    \/ shutdownDone /\ cpc[c] = "idle" /\ cpc'[c] = "sd_notify_queue"
    \/ /\ sdSecond[c]
       /\ cpc[c] \in {"sd_notify_queue", "sd_notify_wait", "sd_join", "sd_joining"}
       /\ <<cpc[c], joinIdx[c]>> # <<cpc'[c], joinIdx'[c]>>

\* C8: a shutdown() call made after an earlier one returned (the destructor's
\* included) joins no thread and leaves the pool as the first call left it:
\* stopped, queue empty, nothing running, every worker exited; it clears
\* pauseFlag_ as the first call did and does not touch it afterwards.
C8_ShutdownIdempotent ==
    [][\A c \in Clients :
         SecondShutdownStep(c)
         => /\ stopFlag'
            /\ IF cpc[c] = "idle" THEN ~pauseFlag' ELSE pauseFlag' = pauseFlag
            /\ taskQueue = {} /\ taskQueue' = {}
            /\ runningTasks = 0 /\ runningTasks' = 0
            /\ \A w \in Threads : wpc[w] = "exited" /\ wpc'[w] = "exited"
            /\ UNCHANGED <<joinable, joinCount, work, future, fate>>
            /\ cpc'[c] # "sd_joining"]_vars

\* C8, the case: a second shutdown() has passed every worker without joining
\* and is about to return.
C8_Witness ==
    \E c \in Clients :
        /\ sdSecond[c]
        /\ cpc[c] = "sd_join"
        /\ joinIdx[c] > threadCount
        /\ \A w \in Threads : joinCount[w] = 1

\* C9 (C pool): no threadpool_shutdown call ever runs on a pool that an earlier
\* threadpool_shutdown has destroyed and freed.
C9_ShutdownTouchesNoFreedPool == "shutdown_after_free" \notin fault

\* C10: once shutdown() has set stopFlag_, no worker dequeues a task: what was
\* queued at that moment is cancelled, not run.
C10_NoDequeueAfterShutdown ==
    [][stopFlag => \A w \in Threads : ~Dequeues(w)]_vars

\* Every worker has exited with an accepted task still queued or a future
\* still pending.
AbandonedAfterExit ==
    /\ \A w \in Threads : wpc[w] = "exited"
    /\ \/ taskQueue # {}
       \/ \E t \in Tasks : fate[t] = "queued" \/ future[t] = "pending"

\* C11: with enqueue() calls racing with shutdown(), under fair scheduling,
\* the future of every accepted task eventually leaves the pending state
\* (value, exception or broken promise), and the workers never all exit
\* leaving an accepted task in the queue or a future pending.
C11_AcceptedHandleResolves ==
    /\ [](~AbandonedAfterExit)
    /\ \A t \in Tasks : (future[t] = "pending") ~> (future[t] # "pending")

\* C11, the case: an enqueue that raced with shutdown() was rejected, an
\* accepted task's future holds its value, and every worker has exited.
C11_Witness ==
    /\ \A w \in Threads : wpc[w] = "exited"
    /\ \E c \in Clients : cpc[c] = "enq_throw"
    /\ \E t \in Tasks : future[t] = "value"

\* C12: when a payload throws, the worker goes on to the decrement with
\* runningTasks_ untouched and the exception stored in the task's future (if
\* it has one); the decrement takes exactly one off runningTasks_ and sends
\* the worker back to the top of its loop.
C12_ThrowIsContained ==
    [][\A w \in Threads :
         /\ (wpc[w] = "exec" /\ fate'[work[w]] = "threw")
            => /\ wpc'[w] = "dec"
               /\ runningTasks' = runningTasks
               /\ future[work[w]] = "pending" => future'[work[w]] = "exception"
         /\ (wpc[w] = "dec" /\ wpc'[w] # "dec")
            => wpc'[w] = "lock" /\ runningTasks' = runningTasks - 1]_vars

\* C12, the case: task 1 threw and its future holds the exception; task 2 was
\* run afterwards by a pool that counts no running task.
C12_Witness ==
    /\ fate[1] = "threw" /\ future[1] = "exception"
    /\ fate[2] = "executed"
    /\ runningTasks = 0
    /\ \A w \in Threads : wpc[w] \in {"lock", "block", "waiting"}

\* C13: while pauseFlag_ is set and the pool is not stopped, no worker takes a
\* task off the queue.
C13_NoDequeueWhilePaused ==
    [][(pauseFlag /\ ~stopFlag) => \A w \in Threads : ~Dequeues(w)]_vars

\* C14: after resume() the workers are awake: the pool is never left not
\* paused, not stopped, with queued work, every worker parked on queueCV_ and
\* no call in progress that could still notify them.
C14_ResumeWakesWorkers ==
    ~ /\ ~pauseFlag /\ ~stopFlag
      /\ taskQueue # {}
      /\ \A w \in Threads : wpc[w] = "waiting"
      /\ \A c \in Clients : cpc[c] = "idle"

\* C15: shutdown() is never left joining workers that cannot exit: stopped,
\* pauseFlag_ set again, work queued, no task in flight and no other call in
\* progress, so that every worker goes round its loop at line 231.
C15_ShutdownNotStuckOnPause ==
    ~ \E c \in Clients :
        /\ cpc[c] = "sd_joining"
        /\ stopFlag /\ pauseFlag
        /\ taskQueue # {}
        /\ \A d \in Clients : d # c => cpc[d] = "idle"
        /\ \A w \in Threads : wpc[w] \in {"lock", "pausechk"}

\* C16: a worker exits only when stopFlag_ is set and the queue is empty, and
\* when a shutdown() has returned the queue is empty, runningTasks_ is 0 and
\* every accepted task has run to its end (or was removed by clearQueue()).
C16_GracefulDrain ==
    [][/\ \A w \in Threads :
            (wpc[w] # "exited" /\ wpc'[w] = "exited") => stopFlag /\ taskQueue = {}
       /\ shutdownDone'
            => /\ taskQueue' = {}
               /\ runningTasks' = 0
               /\ \A t \in Tasks :
                    fate'[t] \in {"unsubmitted", "executed", "threw", "discarded"}]_vars

\* C16, the case: shutdown() has returned and every task that was accepted,
\* the bound's worth of them, has been executed.
C16_Witness ==
    /\ shutdownDone
    /\ nextTask = MaxTasks
    /\ \A t \in Tasks : fate[t] = "executed"

\* C17: no worker thread is joined more than once, and no two shutdown()
\* calls are ever joining the same thread.
C17_JoinedExactlyOnce ==
    /\ \A w \in Threads : joinCount[w] <= 1
    /\ \A c, d \in Clients :
         (c # d /\ cpc[c] = "sd_joining" /\ cpc[d] = "sd_joining")
         => joinIdx[c] # joinIdx[d]

\* C18: under fair scheduling, in a pool that is never paused or stopped,
\* every task that is queued is eventually taken off the queue by a worker.
C18_QueuedTaskIsDequeued ==
    \A t \in Tasks : (fate[t] = "queued") ~> (fate[t] # "queued")

\* C18, the case: a task has been pushed and the lock released, every worker
\* is parked on queueCV_, and the notification of line 210 is still to come.
C18_Witness ==
    /\ \E c \in Clients : cpc[c] = "enq_notify"
    /\ taskQueue # {}
    /\ \A w \in Threads : wpc[w] = "waiting"

\* C19 (C pool): threadpool_wait returns only with queue_size == 0 and
\* running_tasks == 0, and while the pool exists every task a worker has
\* taken off the queue and not finished is counted in running_tasks.
C19_WaitReturnsWhenIdle ==
    /\ \A c \in Clients :
         caller_pc[c] = "wait_ret"
         => /\ queue_size = 0 /\ running_tasks = 0
            /\ \A t \in Tasks : task_fate[t] \notin {"queued", "dequeued"}
    /\ ~pool_freed
         => /\ running_tasks
                 = Cardinality({w \in Workers :
                                  worker_pc[w] \in {"exec", "dec", "crashed"}})
            /\ queue_size = Cardinality({t \in Tasks : task_fate[t] = "queued"})

\* C19, the case: threadpool_wait is returning after a task was enqueued and
\* executed.
C19_Witness ==
    /\ \E c \in Clients : caller_pc[c] = "wait_ret"
    /\ task_fate[1] = "executed"
    /\ task_fate[2] = "executed"

\* C20 (C pool): when threadpool_shutdown has destroyed the pool's mutex and
\* condition variables, no thread is still inside threadpool_wait.
C20_WaitersGoneBeforeDestroy ==
    pool_freed => \A c \in Clients : caller_pc[c] \notin {"wait_waiting", "wait_lock"}

\* C21 (C pool): once taskresult_destroy has freed a result, no worker and no
\* threadpool_clear_queue reads, locks or writes it.
C21_DestroyedHandleNeverTouched ==
    "result_use_after_free" \notin fault

\* C22: the worker count is the request clamped to at least 1 and to the
\* limit: the C++ constructor turns 0 and every request above
\* hardware_concurrency() into hardware_concurrency(), or 1 if that is 0, and
\* keeps any other request; threadpool_create keeps a request up to its limit
\* and turns a larger one into the limit.
C22_WorkerCountClamped ==
    /\ constructed
         => threadCount = IF requested = 0 \/ requested > hw
                            THEN (IF hw = 0 THEN 1 ELSE hw)
                            ELSE requested
    /\ created
         => /\ thread_count >= 1
            /\ requested \in 1..MAX_THREAD_COUNT => thread_count = requested
            /\ requested > MAX_THREAD_COUNT => thread_count = MAX_THREAD_COUNT

\* C23 (C pool): taskresult_get blocks until the result is ready and then
\* returns the value the task's function returned: no thread stays blocked in
\* taskresult_get on the result of a task that a worker has executed.
C23_GetReturnsOnceExecuted ==
    \A g \in Getters :
        getter_pc[g] = "get_waiting" => task_fate[getter_result[g]] # "executed"

\* C24: runningTasks_ equals the number of tasks that have been dequeued and
\* have not yet finished; the count goes up in the critical section of the pop.
C24_RunningCountsDequeued ==
    runningTasks = Cardinality({w \in Threads : HoldsTask(w)})

\* C25: once stopFlag_ is true no call sets it back to false, and no task is
\* accepted afterwards.
C25_StopIsOneWay ==
    [][stopFlag
         => /\ stopFlag'
            /\ nextTask' = nextTask
            /\ taskQueue' \subseteq taskQueue
            /\ \A t \in Tasks : fate[t] = "unsubmitted" => fate'[t] = "unsubmitted"]_vars

\* C25, the case: after shutdown() has set stopFlag_, one thread is inside
\* resume() and another inside an enqueue() that is being rejected.
C25_Witness ==
    /\ stopFlag
    /\ \E c \in Clients : cpc[c] = "resume_notify"
    /\ \E c \in Clients : cpc[c] = "enq_throw"
    /\ nextTask < MaxTasks

\* C26: each task is consumed by exactly one party: a task is dequeued by one
\* worker only and leaves the queue at that moment, it is executed at most
\* once and only by the worker that dequeued it, clearQueue() discards only
\* tasks no worker has dequeued, and no two workers ever hold the same task.
C26_ConsumedByOneParty ==
    [][/\ \A t \in Tasks :
            /\ fate[t] \in {"executed", "threw", "discarded"} => fate'[t] = fate[t]
            /\ (fate'[t] = "queued" /\ fate[t] # "queued") => fate[t] = "unsubmitted"
            /\ (fate'[t] = "dequeued" /\ fate[t] # "dequeued")
                 => /\ fate[t] = "queued"
                    /\ t \in taskQueue /\ t \notin taskQueue'
                    /\ Cardinality({w \in Threads : Dequeues(w) /\ work'[w] = t}) = 1
            /\ (fate'[t] = "discarded" /\ fate[t] # "discarded")
                 => fate[t] = "queued" /\ t \in taskQueue
            /\ (fate'[t] \in {"executed", "threw"} /\ fate[t] # fate'[t])
                 => /\ fate[t] = "dequeued"
                    /\ Cardinality({w \in Threads : wpc[w] = "exec" /\ work[w] = t}) = 1
       /\ \A w1, w2 \in Threads :
            (w1 # w2 /\ HoldsTask(w1) /\ HoldsTask(w2)) => work[w1] # work[w2]]_vars

\* C26, the case: two workers hold one task each, and both tasks have been
\* dequeued.
C26_Witness ==
    /\ threadCount = 2
    /\ HoldsTask(1) /\ HoldsTask(2)
    /\ work[1] # work[2]
    /\ fate[work[1]] = "dequeued" /\ fate[work[2]] = "dequeued"

\* C27 (C pool): a result becomes ready once and its value is written once, by
\* one writer: the worker that runs its task, or the threadpool_clear_queue
\* call that discards the task while it is queued; a ready result is never
\* written again.
C27_ResultWrittenOnce ==
    [][\A t \in Tasks :
         /\ result_ready[t] => result_ready'[t] /\ result_value'[t] = result_value[t]
         /\ result_value'[t] # result_value[t] => ~result_ready[t] /\ result_ready'[t]
         /\ (~result_ready[t] /\ result_ready'[t])
              => \/ /\ task_fate[t] = "dequeued" /\ task_fate'[t] = "executed"
                    /\ Cardinality({w \in Workers : worker_pc[w] = "exec"
                                       /\ worker_task[w] = t /\ worker_pc'[w] = "dec"}) = 1
                 \/ /\ task_fate[t] = "queued" /\ task_fate'[t] = "discarded"
                    /\ \A w \in Workers : worker_pc'[w] = worker_pc[w]]_vars

\* C27, the case: one result was completed by the worker that ran its task and
\* another by threadpool_clear_queue.
C27_Witness ==
    \E t, u \in Tasks :
        /\ result_ready[t] /\ task_fate[t] = "executed"
        /\ result_ready[u] /\ task_fate[u] = "discarded"

\* C28: a worker that has taken a task and is running its payload does not own
\* queueMutex_: the lock taken for the pop is released before work() is called
\* and taken again only after it has returned.  (A payload that itself calls
\* a method of the pool owns the mutex inside that call, as any caller does.)
C28_NoLockDuringPayload ==
    \A w \in Threads :
        wpc[w] \in {"inc", "exec", "twait_waiting", "twait_lock", "dec"}
          => queueMutex # WorkerId(w)

\* C28, the case: a worker is inside a payload while another thread owns the
\* mutex for a call of its own.
C28_Witness ==
    /\ \E w \in Threads : wpc[w] = "exec"
    /\ \E c \in Clients : queueMutex = ClientId(c)

\* C29: when clearQueue() discards the pending tasks of a paused pool that is
\* not stopped and runs no task, every thread blocked in wait() is woken, the
\* predicate of wait() is true, the pool is still paused and not stopped; and
\* a woken wait() that finds its predicate true returns.
C29_ClearQueueWakesWaiters ==
    [][/\ (/\ pauseFlag /\ ~stopFlag /\ runningTasks = 0
           /\ taskQueue # {} /\ taskQueue' = {}
           /\ \E t \in Tasks : fate[t] = "queued" /\ fate'[t] = "discarded")
          => /\ \A c \in Clients : cpc[c] = "wait_waiting" => cpc'[c] = "wait_lock"
             /\ WaitPred'
             /\ pauseFlag' /\ ~stopFlag'
       /\ \A c \in Clients :
            (cpc[c] = "wait_lock" /\ cpc'[c] # "wait_lock" /\ WaitPred)
              => cpc'[c] = "wait_ret"]_vars

\* C29, the case: on a pool that is paused and not stopped and runs nothing, a
\* thread blocked in wait() has been woken and the pending task was discarded.
C29_Witness ==
    /\ pauseFlag /\ ~stopFlag
    /\ runningTasks = 0 /\ taskQueue = {}
    /\ \A w \in Threads : ~HoldsTask(w)
    /\ \E c \in Clients : cpc[c] = "wait_lock"
    /\ \E t \in Tasks : fate[t] = "discarded"

\* C30: on a pool that is never paused, with payloads that terminate, a thread
\* blocked in wait() eventually returns from it: the notification of the idle
\* pool is never lost.
C30_BlockedWaitReturns ==
    \A c \in Clients :
        (cpc[c] \in {"wait_block", "wait_waiting", "wait_lock"}) ~> (cpc[c] = "wait_ret")

\* C30, the case: a thread is parked in wait(), the queue is empty, one worker
\* has finished its task and is about to decrement runningTasks_, and the other
\* has popped the last task and not yet counted it.
C30_Witness ==
    /\ \E c \in Clients : cpc[c] = "wait_waiting"
    /\ taskQueue = {}
    /\ \E w1, w2 \in Threads : wpc[w1] = "dec" /\ wpc[w2] = "inc"
    /\ runningTasks = 1

\* C31: while the pool is not stopping and the queue is empty or the pool is
\* paused, an idle worker waits on queue_cv: it never goes round its loop,
\* unlocking and locking the mutex again, without having waited.
C31_IdleWorkerBlocks ==
    \A w \in Workers : worker_pc[w] = "continue" => stop_flag

\* C32: pause() and resume() change only pauseFlag_: the queue, runningTasks_,
\* stopFlag_, the handles and every worker that holds a task are left as they
\* are.  clearQueue() changes only the queue and the handles of the tasks it
\* removes: pauseFlag_, stopFlag_, runningTasks_ and every worker that is
\* running a task are left as they are.
C32_ControlFrames ==
    [][/\ (\E c \in Clients : Pause(c) \/ ResumeStore(c) \/ ResumeNotify(c))
          => /\ taskQueue' = taskQueue
             /\ runningTasks' = runningTasks
             /\ stopFlag' = stopFlag
             /\ fate' = fate /\ future' = future /\ work' = work
             /\ \A w \in Threads : HoldsTask(w) => wpc'[w] = wpc[w]
       /\ (\E c \in Clients : ClearQueue(c))
          => /\ pauseFlag' = pauseFlag
             /\ stopFlag' = stopFlag
             /\ runningTasks' = runningTasks
             /\ work' = work
             /\ \A t \in Tasks \ taskQueue :
                  fate'[t] = fate[t] /\ future'[t] = future[t]
             /\ \A w \in Threads :
                  wpc[w] \in {"inc", "exec", "dec"} => wpc'[w] = wpc[w]]_vars

\* C32, the case: the pool has been paused and is not stopped while a worker
\* is running a task and another task is queued.
C32_Witness ==
    /\ pauseFlag /\ ~stopFlag
    /\ taskQueue # {}
    /\ \E w \in Threads : wpc[w] = "exec"
    /\ runningTasks = 1

\* C33 (C pool): tasks leave the queue in the order in which
\* threadpool_enqueue accepted them: the task a worker dequeues is older than
\* every task still queued.
C33_FifoDequeue ==
    [][\A t \in Tasks :
         (task_fate[t] = "queued" /\ task_fate'[t] = "dequeued")
           => \A u \in Tasks : task_fate[u] = "queued" => t <= u]_vars

\* C33, the case: a worker has dequeued the first task and runs it, and the
\* second task is at the head of the queue.
C33_Witness ==
    /\ task_fate[1] = "dequeued"
    /\ task_fate[2] = "queued"
    /\ \E w \in Workers : worker_pc[w] = "exec" /\ worker_task[w] = 1
    /\ task_queue_head = 2

C35_QueueWellFormed ==
    queue_mutex = 0
      => /\ queue_size = Cardinality(ListFrom(task_queue_head))
         /\ (task_queue_head = 0) <=> (task_queue_tail = 0)
         /\ (task_queue_head = 0) <=> (queue_size = 0)
         /\ task_queue_tail # 0
              => /\ task_queue_tail \in ListFrom(task_queue_head)
                 /\ task_next[task_queue_tail] = 0

\* C35, the case: two tasks are linked in the queue, the second behind the
\* first.
C35_Witness ==
    /\ queue_mutex = 0
    /\ queue_size = 2
    /\ task_queue_head = 1 /\ task_next[1] = 2 /\ task_queue_tail = 2

=============================================================================
